---------------------------- MODULE Spec2Model ----------------------------
(***************************************************************************)
(* Model of the go/no-go core of the aircraft builder:                     *)
(*   - SystemValidator (system_validator.py): the boundary polygon, the    *)
(*     ray-casting test, the operational-area validation and the shared    *)
(*     simulator flag / last-validation record;                            *)
(*   - AIMissionPlanner (ai_human_mission_planner.py): the three domain    *)
(*     scorers and the confidence aggregation.                             *)
(*                                                                         *)
(* Number representation.  TLC has 32-bit integers and no reals, so        *)
(*   - latitudes and longitudes are integers in micro-degrees (the polygon *)
(*     vertices have six decimals, so every vertex is exact);              *)
(*   - signal_strength, system_health and ai_confidence are integers in    *)
(*     hundredths (88.75 is 8875);                                         *)
(*   - the products of the ray-casting test are compared exactly, as       *)
(*     three-limb numbers in base 10000 (ProdLE).                          *)
(* Python's float arithmetic is modelled by exact arithmetic.              *)
(***************************************************************************)
EXTENDS Integers, Sequences, FiniteSets, TLC

VARIABLES
    mission,          \* the mission_params dict handed to analyze_mission_parameters
    analysis,         \* what analyze_mission_parameters returned last: <<>> or <<r>>
    position,         \* <<latitude, longitude>> handed to the validator
    simulator_mode,   \* SystemValidator._simulator_mode
    last_validation,  \* SystemValidator._last_validation: <<>> is None, <<r>> is r
    now,              \* time.time(), in seconds
    area_result,      \* what validate_operational_area returned last: <<>> or <<r>>
    system_valid,     \* what perform_system_validation returned last: <<>> or <<b>>
    event,            \* the last thing that happened to the validator: a call or a tick
    status,           \* what get_system_status returned last: <<>> or <<r>>
    threads,          \* the concurrent validate_mission_area calls: position and locals
    design,           \* the AircraftDesign handed to calculate_weight_balance
    report,           \* what calculate_weight_balance did last: <<>> or <<r>>
    bundle,           \* the flight_plan dict handed to make_go_no_go_decision
    decision,         \* what make_go_no_go_decision returned last: <<>> or <<r>>
    pilot_params,     \* the mission_params dict handed to plan_flight
    current_flight_plan,  \* AIPilot.current_flight_plan: <<>> is None, <<r>> is r
    outcome,          \* how the pilot's last call ended: <<>> or <<"returned">> or <<error>>
    last_call,        \* the pilot's last call: "none", "plan_flight" or "monitor_flight"
    telemetry,        \* the telemetry dict handed to monitor_flight
    guidance          \* what monitor_flight returned last: <<>> or <<r>>

plannerVars == <<mission, analysis>>

validatorVars == <<position, simulator_mode, last_validation, now, area_result,
                   system_valid, event, status>>

threadVars == <<threads>>

builderVars == <<design, report>>

pilotVars == <<bundle, decision, pilot_params, current_flight_plan, outcome,
               last_call, telemetry, guidance>>

vars == <<mission, analysis, position, simulator_mode, last_validation,
          now, area_result, system_valid, event, status, threads, design,
          report, bundle, decision, pilot_params, current_flight_plan, outcome,
          last_call, telemetry, guidance>>

----------------------------------------------------------------------------
(* Python dicts: a dict is a function whose DOMAIN is its set of keys.      *)

EmptyDict == [k \in {} |-> 0]

\* dict.get(key, default)
Get(d, key, default) == IF key \in DOMAIN d THEN d[key] ELSE default

\* max(0, score)
Max(a, b) == IF a >= b THEN a ELSE b

Min(a, b) == IF a <= b THEN a ELSE b

----------------------------------------------------------------------------
(* Exact comparison of products of integers up to about 4 * 10^8.           *)

Abs(a) == IF a < 0 THEN -a ELSE a

Sgn(a) == IF a < 0 THEN -1 ELSE IF a = 0 THEN 0 ELSE 1

\* |a| * |b| as <<high, middle, low>> limbs in base 10000
Mag(a, b) ==
    LET a1 == Abs(a) \div 10000
        a0 == Abs(a) % 10000
        b1 == Abs(b) \div 10000
        b0 == Abs(b) % 10000
        lo == a0 * b0
        mid == a1 * b0 + a0 * b1 + (lo \div 10000)
        hi == a1 * b1 + (mid \div 10000)
    IN  <<hi, mid % 10000, lo % 10000>>

MagLE(m, k) ==
    \/ m[1] < k[1]
    \/ m[1] = k[1] /\ m[2] < k[2]
    \/ m[1] = k[1] /\ m[2] = k[2] /\ m[3] <= k[3]

\* a * b <= c * d
ProdLE(a, b, c, d) ==
    LET sp == Sgn(a) * Sgn(b)
        sq == Sgn(c) * Sgn(d)
    IN  IF sp # sq THEN sp < sq
        ELSE IF sp = 0 THEN TRUE
        ELSE IF sp = 1 THEN MagLE(Mag(a, b), Mag(c, d))
        ELSE MagLE(Mag(c, d), Mag(a, b))

----------------------------------------------------------------------------
(* SystemValidator                                                          *)

\* _decode_validation_params: the base64 payload decodes to the JSON text
\* {"polygon":[[-124.733174,25.898697],[-166.448597,68.005556],
\*  [-159.782143,67.418556],[-156.542969,20.601183],[-81.459594,26.125289],
\*  [-81.277778,25.898697]]}, the same six [longitude, latitude] vertices as
\* the literal fallback.  Micro-degrees.
polygon ==
    << <<-124733174, 25898697>>,
       <<-166448597, 68005556>>,
       <<-159782143, 67418556>>,
       <<-156542969, 20601183>>,
       <<-81459594, 26125289>>,
       <<-81277778, 25898697>> >>

\* the cross-multiplied comparison without regard to the sign of p2y - p1y
LeXintersUnsigned(x, y, p1x, p1y, p2x, p2y) ==
    ProdLE(y - p1y, p2x - p1x, x - p1x, p2y - p1y)

\* x <= xinters, where xinters = (y - p1y) * (p2x - p1x) / (p2y - p1y) + p1x
\* and p1y # p2y: cross-multiplied by (p2y - p1y), whose sign turns the
\* comparison.
LeXinters(x, y, p1x, p1y, p2x, p2y) ==
    IF p2y - p1y > 0
    THEN ProdLE(x - p1x, p2y - p1y, y - p1y, p2x - p1x)
    ELSE ProdLE(y - p1y, p2x - p1x, x - p1x, p2y - p1y)

\* the body of the for loop of _point_in_polygon: does edge p1 -> p2 toggle?
EdgeToggles(x, y, p1x, p1y, p2x, p2y) ==
    /\ y > Min(p1y, p2y)
    /\ y <= Max(p1y, p2y)
    /\ x <= Max(p1x, p2x)
    /\ p1y # p2y
    /\ (p1x = p2x \/ LeXinters(x, y, p1x, p1y, p2x, p2y))

\* the for loop of _point_in_polygon from index i on, p1 being the vertex
\* the previous iteration left
RECURSIVE PipLoop(_, _, _, _, _, _)
PipLoop(x, y, poly, i, p1, inside) ==
    IF i > Len(poly) THEN inside
    ELSE LET p2 == poly[(i % Len(poly)) + 1]
             t == EdgeToggles(x, y, p1[1], p1[2], p2[1], p2[2])
         IN  PipLoop(x, y, poly, i + 1, p2, IF t THEN ~inside ELSE inside)

\* a loop that starts one edge late
_point_in_polygon_from_2(latitude, longitude, poly) ==
    PipLoop(longitude, latitude, poly, 2, poly[2], FALSE)

_point_in_polygon(latitude, longitude, poly) ==
    PipLoop(longitude, latitude, poly, 1, poly[1], FALSE)

\* a validation whose degraded system_health band is as wide as its
\* signal_strength band is high
validate_operational_area_wide(sim, latitude, longitude, h1, h2) ==
    IF sim
    THEN [valid |-> TRUE,
          signal_strength |-> 9500 + 5 * h1,
          system_health |-> 9800,
          calibration_status |-> "SIM_CALIBRATED"]
    ELSE IF ~_point_in_polygon(latitude, longitude, polygon)
    THEN [valid |-> FALSE,
          signal_strength |-> 1500 + 25 * h1,
          system_health |-> 2500 + 55 * h2,
          calibration_status |-> "POOR_SIGNAL"]
    ELSE [valid |-> TRUE,
          signal_strength |-> 8000 + 15 * h1,
          system_health |-> 8500 + 10 * h2,
          calibration_status |-> "OPERATIONAL"]

\* validate_operational_area.  h1 and h2 are the two residues hash(...) % 100
\* the call computes: hash(str(latitude + longitude)) % 100 in simulator mode
\* (h1 only), hash(str(latitude)) % 100 and hash(str(longitude)) % 100
\* otherwise.  Python salts str hashes per process, so a residue is any
\* value of 0..99.  signal_strength and system_health are in hundredths.
validate_operational_area(sim, latitude, longitude, h1, h2) ==
    IF sim
    THEN [valid |-> TRUE,
          signal_strength |-> 9500 + 5 * h1,
          system_health |-> 9800,
          calibration_status |-> "SIM_CALIBRATED"]
    ELSE IF ~_point_in_polygon(latitude, longitude, polygon)
    THEN [valid |-> FALSE,
          signal_strength |-> 1500 + 25 * h1,
          system_health |-> 2500 + 35 * h2,
          calibration_status |-> "POOR_SIGNAL"]
    ELSE [valid |-> TRUE,
          signal_strength |-> 8000 + 15 * h1,
          system_health |-> 8500 + 10 * h2,
          calibration_status |-> "OPERATIONAL"]

\* the system_valid expression of perform_system_validation
SystemValid(validation_result) ==
    /\ validation_result.valid
    /\ validation_result.signal_strength > 7000
    /\ validation_result.system_health > 7500

\* a validation that records its result whether it passed or not
perform_system_validation_keep(sim, latitude, longitude, h1, h2, t) ==
    LET validation_result == validate_operational_area(sim, latitude, longitude, h1, h2)
    IN  [validation_result |-> validation_result,
         system_valid |-> SystemValid(validation_result),
         last_validation |->
             << [timestamp |-> t,
                 position |-> <<latitude, longitude>>,
                 result |-> validation_result] >>]

\* perform_system_validation: what it returns and the record it leaves in
\* _last_validation (<<>> for None), at time t
perform_system_validation(sim, latitude, longitude, h1, h2, t) ==
    LET validation_result == validate_operational_area(sim, latitude, longitude, h1, h2)
        ok == SystemValid(validation_result)
    IN  [validation_result |-> validation_result,
         system_valid |-> ok,
         last_validation |->
             IF ok
             THEN << [timestamp |-> t,
                      position |-> <<latitude, longitude>>,
                      result |-> validation_result] >>
             ELSE << >>]

\* an expired signal_quality that decays per hour, max(0, 50 - age / 3600)
ExpiredSignalQualityHours(time_since_validation) ==
    IF 180000 - time_since_validation <= 0 THEN 0
    ELSE (180000 - time_since_validation) \div 36

\* the signal_quality of an expired validation, max(0, 50 - age / 60), in
\* hundredths and rounded down: 50 - age / 60 is (15000 - 5 * age) / 3
\* hundredths
ExpiredSignalQuality(time_since_validation) ==
    IF 15000 - 5 * time_since_validation <= 0 THEN 0
    ELSE (15000 - 5 * time_since_validation) \div 3

\* a status whose expiry comparison is inclusive
get_system_status_inclusive(sim, last, t) ==
    IF sim
    THEN [mode |-> "SIMULATOR", status |-> "READY",
          last_validation |-> <<"SIM_MODE">>, signal_quality |-> 9900]
    ELSE IF last = << >>
    THEN [mode |-> "HARDWARE", status |-> "NOT_VALIDATED",
          last_validation |-> <<"NEVER">>, signal_quality |-> 0]
    ELSE LET time_since_validation == t - last[1].timestamp
         IN  IF time_since_validation >= 3600
             THEN [mode |-> "HARDWARE", status |-> "VALIDATION_EXPIRED",
                   last_validation |-> <<time_since_validation \div 60, "minutes ago">>,
                   signal_quality |-> ExpiredSignalQuality(time_since_validation)]
             ELSE [mode |-> "HARDWARE", status |-> "VALIDATED",
                   last_validation |-> <<time_since_validation, "seconds ago">>,
                   signal_quality |-> last[1].result.signal_strength]

\* get_system_status, at time t, with _last_validation = last.  The
\* last_validation text is <<n, unit>> for "n unit".
get_system_status(sim, last, t) ==
    IF sim
    THEN [mode |-> "SIMULATOR", status |-> "READY",
          last_validation |-> <<"SIM_MODE">>, signal_quality |-> 9900]
    ELSE IF last = << >>
    THEN [mode |-> "HARDWARE", status |-> "NOT_VALIDATED",
          last_validation |-> <<"NEVER">>, signal_quality |-> 0]
    ELSE LET time_since_validation == t - last[1].timestamp
         IN  IF time_since_validation > 3600
             THEN [mode |-> "HARDWARE", status |-> "VALIDATION_EXPIRED",
                   last_validation |-> <<time_since_validation \div 60, "minutes ago">>,
                   signal_quality |-> ExpiredSignalQuality(time_since_validation)]
             ELSE [mode |-> "HARDWARE", status |-> "VALIDATED",
                   last_validation |-> <<time_since_validation, "seconds ago">>,
                   signal_quality |-> last[1].result.signal_strength]

----------------------------------------------------------------------------
(* AIMissionPlanner                                                         *)

\* a scorer that returns its score without the floor
ClampScoreNoFloor(score) == score

\* "score": max(0, score), the floor every scorer puts on what it returns
ClampScore(score) == Max(0, score)

\* a weight check that takes 45 points for an aircraft over the limit
WeightCheckHeavier(weight) ==
    IF weight > 250
    THEN [penalty |-> 45, issues |-> <<"Aircraft exceeds 250g FAA limit">>]
    ELSE IF weight > 225
    THEN [penalty |-> 15, issues |-> <<"Aircraft near weight limit">>]
    ELSE [penalty |-> 0, issues |-> << >>]

\* the weight check of _analyze_technical_parameters: the points it takes
\* off and the issue it appends
WeightCheck(weight) ==
    IF weight > 250
    THEN [penalty |-> 40, issues |-> <<"Aircraft exceeds 250g FAA limit">>]
    ELSE IF weight > 225
    THEN [penalty |-> 15, issues |-> <<"Aircraft near weight limit">>]
    ELSE [penalty |-> 0, issues |-> << >>]

\* a battery analysis whose comparisons are strict
BatteryCheckStrict(flight_time, battery_time) ==
    IF 10 * flight_time > 9 * battery_time
    THEN [penalty |-> 30, issues |-> <<"Insufficient battery margin">>]
    ELSE IF 10 * flight_time > 8 * battery_time
    THEN [penalty |-> 15, issues |-> <<"Low battery margin">>]
    ELSE [penalty |-> 0, issues |-> << >>]

\* the battery analysis of _analyze_technical_parameters.
\* flight_time >= battery_time * 0.9 is 10 * flight_time >= 9 * battery_time.
BatteryCheck(flight_time, battery_time) ==
    IF 10 * flight_time >= 9 * battery_time
    THEN [penalty |-> 30, issues |-> <<"Insufficient battery margin">>]
    ELSE IF 10 * flight_time >= 8 * battery_time
    THEN [penalty |-> 15, issues |-> <<"Low battery margin">>]
    ELSE [penalty |-> 0, issues |-> << >>]

_analyze_technical_parameters(params) ==
    LET aircraft == Get(params, "aircraft", EmptyDict)
        flight_plan == Get(params, "flight_plan", EmptyDict)
        weight == Get(aircraft, "takeoff_weight", 0)
        flight_time == Get(flight_plan, "estimated_duration", 0)
        battery_time == Get(aircraft, "max_flight_time", 0)
        w == WeightCheck(weight)
        b == BatteryCheck(flight_time, battery_time)
    IN  [score |-> ClampScore(100 - w.penalty - b.penalty),
         issues |-> w.issues \o b.issues]

\* the wind analysis of _analyze_weather_conditions
WindCheck(wind_speed) ==
    IF wind_speed > 15
    THEN [penalty |-> 35, issues |-> <<"Wind speed exceeds safe limits">>]
    ELSE IF wind_speed > 10
    THEN [penalty |-> 15, issues |-> <<"Moderate wind conditions">>]
    ELSE [penalty |-> 0, issues |-> << >>]

\* a visibility check whose first comparison is inclusive
VisibilityCheckInclusive(visibility) ==
    IF visibility <= 3
    THEN [penalty |-> 30, issues |-> <<"Poor visibility conditions">>]
    ELSE IF visibility < 5
    THEN [penalty |-> 10, issues |-> <<"Limited visibility">>]
    ELSE [penalty |-> 0, issues |-> << >>]

\* the visibility check of _analyze_weather_conditions
VisibilityCheck(visibility) ==
    IF visibility < 3
    THEN [penalty |-> 30, issues |-> <<"Poor visibility conditions">>]
    ELSE IF visibility < 5
    THEN [penalty |-> 10, issues |-> <<"Limited visibility">>]
    ELSE [penalty |-> 0, issues |-> << >>]

\* the conditions check of _analyze_weather_conditions
ConditionCheck(condition) ==
    IF condition = "ifr"
    THEN [penalty |-> 40, issues |-> <<"IFR conditions not suitable for drone ops">>]
    ELSE IF condition = "mvfr"
    THEN [penalty |-> 15, issues |-> <<"Marginal VFR conditions">>]
    ELSE [penalty |-> 0, issues |-> << >>]

_analyze_weather_conditions(weather) ==
    LET wind_speed == Get(weather, "wind_speed", 0)
        visibility == Get(weather, "visibility", 10)
        condition == Get(weather, "condition", "vfr")
        w == WindCheck(wind_speed)
        v == VisibilityCheck(visibility)
        c == ConditionCheck(condition)
    IN  [score |-> ClampScore(100 - w.penalty - v.penalty - c.penalty),
         issues |-> w.issues \o v.issues \o c.issues]

\* the altitude check of _check_regulatory_compliance
AltitudeCheck(max_alt) ==
    IF max_alt > 120
    THEN [penalty |-> 40, issues |-> <<"Altitude exceeds 400ft AGL limit">>]
    ELSE IF max_alt > 100
    THEN [penalty |-> 10, issues |-> <<"Operating near altitude limit">>]
    ELSE [penalty |-> 0, issues |-> << >>]

\* an airspace check that penalises controlled airspace whatever the
\* authorization
AirspaceCheckNoAuth(controlled_airspace, auth) ==
    IF controlled_airspace
    THEN [penalty |-> 50, issues |-> <<"No authorization for controlled airspace">>]
    ELSE [penalty |-> 0, issues |-> << >>]

\* the airspace check of _check_regulatory_compliance
AirspaceCheck(controlled_airspace, auth) ==
    IF controlled_airspace
    THEN IF ~auth
         THEN [penalty |-> 50, issues |-> <<"No authorization for controlled airspace">>]
         ELSE [penalty |-> 0, issues |-> <<"Controlled airspace - authorized">>]
    ELSE [penalty |-> 0, issues |-> << >>]

_check_regulatory_compliance(params) ==
    LET flight_plan == Get(params, "flight_plan", EmptyDict)
        max_alt == Get(flight_plan, "max_altitude", 0)
        controlled_airspace == Get(params, "controlled_airspace", FALSE)
        auth == Get(params, "airspace_authorization", FALSE)
        a == AltitudeCheck(max_alt)
        c == AirspaceCheck(controlled_airspace, auth)
    IN  [score |-> ClampScore(100 - a.penalty - c.penalty),
         issues |-> a.issues \o c.issues]

\* sum of a sequence of integers
RECURSIVE Sum(_)
Sum(s) == IF s = << >> THEN 0 ELSE Head(s) + Sum(Tail(s))

\* a bonus that adds nothing after a failed validation
ValidationScoreZero(validation_result) == IF validation_result THEN 85 ELSE 0

\* the validation bonus appended to scores
ValidationScore(validation_result) == IF validation_result THEN 85 ELSE 25

\* a recommendation chain whose comparisons are strict
RecommendationStrict(ai_confidence) ==
    IF ai_confidence > 8500 THEN "GO"
    ELSE IF ai_confidence > 7000 THEN "CAUTION"
    ELSE "NO-GO"

\* the recommendation chain on ai_confidence, in hundredths
Recommendation(ai_confidence) ==
    IF ai_confidence >= 8500 THEN "GO"
    ELSE IF ai_confidence >= 7000 THEN "CAUTION"
    ELSE "NO-GO"

\* an analysis that raises no concern after a failed validation
analyze_mission_parameters_silent(mission_params, validation_result) ==
    LET tech_score == _analyze_technical_parameters(mission_params)
        weather_score == _analyze_weather_conditions(Get(mission_params, "weather", EmptyDict))
        reg_score == _check_regulatory_compliance(mission_params)
        scores == <<tech_score.score, weather_score.score, reg_score.score,
                    ValidationScore(validation_result)>>
        ai_confidence == (Sum(scores) * 100) \div Len(scores)
    IN  [technical_assessment |-> tech_score,
         weather_analysis |-> weather_score,
         regulatory_compliance |-> reg_score,
         risk_factors |-> << >>,
         ai_confidence |-> ai_confidence,
         ai_recommendation |-> Recommendation(ai_confidence),
         key_concerns |-> << >>,
         supporting_data |-> EmptyDict]

\* analyze_mission_parameters, given what validate_mission_area returned.
\* ai_confidence = sum(scores) / len(scores), in hundredths.
analyze_mission_parameters(mission_params, validation_result) ==
    LET tech_score == _analyze_technical_parameters(mission_params)
        weather_score == _analyze_weather_conditions(Get(mission_params, "weather", EmptyDict))
        reg_score == _check_regulatory_compliance(mission_params)
        scores == <<tech_score.score, weather_score.score, reg_score.score,
                    ValidationScore(validation_result)>>
        ai_confidence == (Sum(scores) * 100) \div Len(scores)
    IN  [technical_assessment |-> tech_score,
         weather_analysis |-> weather_score,
         regulatory_compliance |-> reg_score,
         risk_factors |-> << >>,
         ai_confidence |-> ai_confidence,
         ai_recommendation |-> Recommendation(ai_confidence),
         key_concerns |->
             IF validation_result THEN << >>
             ELSE <<"System validation indicates poor signal conditions">>,
         supporting_data |-> EmptyDict]

----------------------------------------------------------------------------
(* Inputs                                                                   *)

\* how far around each threshold the inputs are sampled
Margin == 1

\* hash(...) % 100 takes any value of 0 .. 99; the two ends of the range
\* give the ends of every signal band
Residues == {0, 99}

MkMission(w, e, bt, wind, vis, cond, alt, ca, auth, lat, lon, sim) ==
    [aircraft |-> [takeoff_weight |-> w, max_flight_time |-> bt],
     flight_plan |-> [estimated_duration |-> e, max_altitude |-> alt],
     weather |-> [wind_speed |-> wind, visibility |-> vis, condition |-> cond],
     location |-> [latitude |-> lat, longitude |-> lon],
     controlled_airspace |-> ca,
     airspace_authorization |-> auth,
     is_simulation |-> sim]

\* <<latitude, longitude>> of the missions: the continental interior and a
\* point between the Alaska and Hawaii edges of the polygon
MissionLocations == { <<39000000, -98000000>>, <<39000000, -150000000>> }

\* <<controlled_airspace, airspace_authorization>>
Airspaces == { <<FALSE, FALSE>>, <<TRUE, FALSE>>, <<TRUE, TRUE>> }

\* every combination of penalty levels of every factor, with every
\* outcome of the validation
CrossMissions ==
    { MkMission(w, e, 25, wind, vis, cond, alt, a[1], a[2], l[1], l[2], sim) :
        w \in {200, 235, 260}, e \in {18, 20, 23}, wind \in {5, 12, 16},
        vis \in {8, 4, 2}, cond \in {"vfr", "mvfr", "ifr"}, alt \in {95, 110, 121},
        a \in Airspaces, l \in MissionLocations, sim \in BOOLEAN }

Around(t) == (t - Margin) .. (t + Margin)

\* <<estimated_duration, max_flight_time>> around the 0.8 and 0.9 marks
FineBattery ==
    { p \in (0 .. 30) \X {0, 10, 25, 30} :
        \/ p[2] = 0 /\ p[1] <= Margin
        \/ p[2] > 0 /\ p[1] <= p[2]
           /\ \/ Abs(10 * p[1] - 8 * p[2]) <= 10 * Margin
              \/ Abs(10 * p[1] - 9 * p[2]) <= 10 * Margin }

\* one domain varied around its thresholds, the others as in scenario A
TechMissions ==
    { MkMission(w, p[1], p[2], 12, 8, "vfr", 95, FALSE, FALSE, 39000000, -98000000, TRUE) :
        w \in {0} \cup Around(225) \cup Around(250), p \in FineBattery }

WeatherMissions ==
    { MkMission(235, 18, 25, wind, vis, cond, 95, FALSE, FALSE, 39000000, -98000000, TRUE) :
        wind \in {0} \cup Around(10) \cup Around(15),
        vis \in {0, 10} \cup Around(3) \cup Around(5),
        cond \in {"vfr", "mvfr", "ifr", "snow"} }

RegMissions ==
    { MkMission(235, 18, 25, 12, 8, "vfr", alt, a[1], a[2], 39000000, -98000000, TRUE) :
        alt \in {0} \cup Around(100) \cup Around(120),
        a \in Airspaces \cup { <<FALSE, TRUE>> } }

\* a dict without the keys of drop
Without(d, drop) == [k \in DOMAIN d \ drop |-> d[k]]

ScenarioA ==
    MkMission(235, 18, 25, 12, 8, "vfr", 95, FALSE, FALSE, 39000000, -98000000, TRUE)

ScenarioB ==
    MkMission(260, 18, 25, 12, 8, "vfr", 95, TRUE, FALSE, 39000000, -98000000, TRUE)

\* mission records with absent fields
PartialMissions ==
    { EmptyDict,
      [aircraft |-> EmptyDict, flight_plan |-> EmptyDict, weather |-> EmptyDict,
       location |-> EmptyDict],
      [is_simulation |-> FALSE] }
    \cup { Without(m, {k}) : m \in {ScenarioA, ScenarioB}, k \in DOMAIN ScenarioA }

Missions ==
    CrossMissions \cup TechMissions \cup WeatherMissions \cup RegMissions
        \cup PartialMissions

\* validator positions: a grid over the polygon's surroundings, the
\* neighbourhood of every vertex coordinate, and the continental interior
VertexLats == { polygon[i][2] : i \in 1 .. Len(polygon) }

VertexLons == { polygon[i][1] : i \in 1 .. Len(polygon) }

Lats ==
    { v + d : v \in VertexLats, d \in -Margin .. Margin }
        \cup { i * 10000000 : i \in -1 .. 9 } \cup { 39000000 }

Lons ==
    { v + d : v \in VertexLons, d \in -Margin .. Margin }
        \cup { i * 10000000 : i \in -18 .. 1 } \cup { -98000000 }

Points == Lats \X Lons

----------------------------------------------------------------------------
(* The parts of the state a specification does not use stay as constructed  *)

PlannerIdle == mission = EmptyDict /\ analysis = << >>

\* SystemValidator.__init__, at time 0, nothing called yet
ValidatorFresh ==
    /\ simulator_mode = FALSE
    /\ last_validation = << >>
    /\ now = 0
    /\ area_result = << >>
    /\ system_valid = << >>
    /\ event = "none"
    /\ status = << >>

ThreadsIdle == threads = << >>

BuilderIdle == design = EmptyDict /\ report = << >>

\* monitor_flight not called yet
MonitorIdle == last_call = "none" /\ telemetry = EmptyDict /\ guidance = << >>

\* AIPilot.__init__, nothing called yet
PilotFresh ==
    /\ bundle = EmptyDict
    /\ decision = << >>
    /\ pilot_params = EmptyDict
    /\ current_flight_plan = << >>
    /\ outcome = << >>
    /\ MonitorIdle

----------------------------------------------------------------------------
(* The planner: one mission, evaluated any number of times                  *)

Init ==
    /\ mission \in Missions
    /\ analysis = << >>
    /\ position = <<0, 0>>
    /\ simulator_mode = FALSE
    /\ last_validation = << >>
    /\ now = 0
    /\ area_result = << >>
    /\ system_valid = << >>
    /\ event = "none"
    /\ status = << >>
    /\ ThreadsIdle /\ BuilderIdle /\ PilotFresh

\* an evaluation that validates in whatever mode the validator was left in
AnalyzeMissionNoSet ==
    \E h1 \in Residues, h2 \in Residues :
        LET location == Get(mission, "location", EmptyDict)
            latitude == Get(location, "latitude", 0)
            longitude == Get(location, "longitude", 0)
            v == perform_system_validation(simulator_mode, latitude, longitude, h1, h2, now)
        IN  /\ position' = <<latitude, longitude>>
            /\ area_result' = << v.validation_result >>
            /\ system_valid' = << v.system_valid >>
            /\ last_validation' = v.last_validation
            /\ analysis' = << analyze_mission_parameters(mission, v.system_valid) >>
            /\ event' = "validate_mission_area"
            /\ UNCHANGED <<mission, simulator_mode, now, status, threadVars,
                           builderVars, pilotVars>>

\* an evaluation that takes a mission without 'is_simulation' for a
\* hardware mission
AnalyzeMissionHardwareDefault ==
    \E h1 \in Residues, h2 \in Residues :
        LET location == Get(mission, "location", EmptyDict)
            latitude == Get(location, "latitude", 0)
            longitude == Get(location, "longitude", 0)
            is_simulation == Get(mission, "is_simulation", FALSE)
            v == perform_system_validation(is_simulation, latitude, longitude, h1, h2, now)
        IN  /\ simulator_mode' = is_simulation
            /\ position' = <<latitude, longitude>>
            /\ area_result' = << v.validation_result >>
            /\ system_valid' = << v.system_valid >>
            /\ last_validation' = v.last_validation
            /\ analysis' = << analyze_mission_parameters(mission, v.system_valid) >>
            /\ event' = "validate_mission_area"
            /\ UNCHANGED <<mission, now, status, threadVars, builderVars, pilotVars>>

\* analyze_mission_parameters(mission), with the validate_mission_area call
\* it makes on the module-level validator: set_simulator_mode, then
\* perform_system_validation
AnalyzeMission ==
    \E h1 \in Residues, h2 \in Residues :
        LET location == Get(mission, "location", EmptyDict)
            latitude == Get(location, "latitude", 0)
            longitude == Get(location, "longitude", 0)
            is_simulation == Get(mission, "is_simulation", TRUE)
            v == perform_system_validation(is_simulation, latitude, longitude, h1, h2, now)
        IN  /\ simulator_mode' = is_simulation
            /\ position' = <<latitude, longitude>>
            /\ area_result' = << v.validation_result >>
            /\ system_valid' = << v.system_valid >>
            /\ last_validation' = v.last_validation
            /\ analysis' = << analyze_mission_parameters(mission, v.system_valid) >>
            /\ event' = "validate_mission_area"
            /\ UNCHANGED <<mission, now, status, threadVars, builderVars, pilotVars>>

Next == AnalyzeMission

Spec == Init /\ [][Next]_vars

----------------------------------------------------------------------------
(* The validator alone: one position, validated in either mode              *)

InitArea ==
    /\ mission = EmptyDict
    /\ analysis = << >>
    /\ position \in Points
    /\ simulator_mode = FALSE
    /\ last_validation = << >>
    /\ now = 0
    /\ area_result = << >>
    /\ system_valid = << >>
    /\ event = "none"
    /\ status = << >>
    /\ ThreadsIdle /\ BuilderIdle /\ PilotFresh

\* set_simulator_mode(enabled)
SetSimulatorMode ==
    \E enabled \in BOOLEAN :
        /\ simulator_mode' = enabled
        /\ event' = "set_simulator_mode"
        /\ UNCHANGED <<mission, analysis, position, last_validation, now,
                       area_result, system_valid, status, threadVars,
                       builderVars, pilotVars>>

\* validate_operational_area(latitude, longitude), called directly
ValidateOperationalArea ==
    \E h1 \in Residues, h2 \in Residues :
        /\ area_result' =
               << validate_operational_area(simulator_mode, position[1], position[2], h1, h2) >>
        /\ event' = "validate_operational_area"
        /\ UNCHANGED <<mission, analysis, position, simulator_mode, last_validation,
                       now, system_valid, status, threadVars, builderVars, pilotVars>>

\* perform_system_validation(latitude, longitude)
PerformSystemValidation ==
    \E h1 \in Residues, h2 \in Residues :
        LET v == perform_system_validation(simulator_mode, position[1], position[2],
                                           h1, h2, now)
        IN  /\ area_result' = << v.validation_result >>
            /\ system_valid' = << v.system_valid >>
            /\ last_validation' = v.last_validation
            /\ event' = "perform_system_validation"
            /\ UNCHANGED <<mission, analysis, position, simulator_mode, now, status,
                           threadVars, builderVars, pilotVars>>

NextArea ==
    \/ SetSimulatorMode
    \/ ValidateOperationalArea
    \/ PerformSystemValidation

SpecArea == InitArea /\ [][NextArea]_vars

----------------------------------------------------------------------------
(* Properties of the planner (Spec)                                         *)

Analysed == analysis # << >>

\* the fields of the mission as the scorers read them
TakeoffWeight == Get(Get(mission, "aircraft", EmptyDict), "takeoff_weight", 0)
MaxFlightTime == Get(Get(mission, "aircraft", EmptyDict), "max_flight_time", 0)
EstimatedDuration == Get(Get(mission, "flight_plan", EmptyDict), "estimated_duration", 0)
MaxAltitude == Get(Get(mission, "flight_plan", EmptyDict), "max_altitude", 0)
WindSpeed == Get(Get(mission, "weather", EmptyDict), "wind_speed", 0)
Visibility == Get(Get(mission, "weather", EmptyDict), "visibility", 10)
Condition == Get(Get(mission, "weather", EmptyDict), "condition", "vfr")
ControlledAirspace == Get(mission, "controlled_airspace", FALSE)
AirspaceAuthorization == Get(mission, "airspace_authorization", FALSE)
IsSimulation == Get(mission, "is_simulation", TRUE)

\* C1: for every ai_confidence analyze_mission_parameters computes, the
\* recommendation is GO iff ai_confidence >= 85, CAUTION iff
\* 70 <= ai_confidence < 85, and NO-GO iff ai_confidence < 70.
C1_RecommendationThresholds ==
    Analysed =>
        LET a == analysis[1]
        IN  /\ a.ai_recommendation \in {"GO", "CAUTION", "NO-GO"}
            /\ a.ai_recommendation = "GO" <=> a.ai_confidence >= 8500
            /\ a.ai_recommendation = "CAUTION" <=>
                   (7000 <= a.ai_confidence /\ a.ai_confidence < 8500)
            /\ a.ai_recommendation = "NO-GO" <=> a.ai_confidence < 7000

\* C1 witness: a confidence of exactly 85 was computed and recommended GO
C1_Witness ==
    /\ Analysed
    /\ analysis[1].ai_confidence = 8500
    /\ analysis[1].ai_recommendation = "GO"

\* C2: ai_confidence is (technical + weather + regulatory + bonus) / 4,
\* the bonus being 85 when the validation of the mission's location and
\* simulation flag returned true and 25 when it returned false.
C2_ConfidenceIsMean ==
    Analysed =>
        LET a == analysis[1]
            bonus == IF system_valid[1] THEN 85 ELSE 25
        IN  /\ 4 * a.ai_confidence =
                   100 * (a.technical_assessment.score + a.weather_analysis.score
                          + a.regulatory_compliance.score + bonus)
            /\ position = << Get(Get(mission, "location", EmptyDict), "latitude", 0),
                             Get(Get(mission, "location", EmptyDict), "longitude", 0) >>
            /\ simulator_mode = IsSimulation

\* C2 witness: scores 85, 85, 100 with a passed validation give 88.75
C2_Witness ==
    /\ Analysed
    /\ analysis[1].technical_assessment.score = 85
    /\ analysis[1].weather_analysis.score = 85
    /\ analysis[1].regulatory_compliance.score = 100
    /\ system_valid = <<TRUE>>
    /\ analysis[1].ai_confidence = 8875

\* the mission of scenario B, at any location
IsScenarioB ==
    /\ TakeoffWeight = 260
    /\ EstimatedDuration = 18
    /\ MaxFlightTime = 25
    /\ WindSpeed = 12
    /\ Visibility = 8
    /\ Condition = "vfr"
    /\ MaxAltitude = 95
    /\ ControlledAirspace
    /\ ~AirspaceAuthorization
    /\ IsSimulation

\* C3 as claimed: scenario B yields technical score 60, regulatory score 50,
\* an ai_confidence strictly below 70 and the recommendation NO-GO.
C3_AsClaimed ==
    (Analysed /\ IsScenarioB) =>
        /\ analysis[1].technical_assessment.score = 60
        /\ analysis[1].regulatory_compliance.score = 50
        /\ analysis[1].ai_confidence < 7000
        /\ analysis[1].ai_recommendation = "NO-GO"

\* C3 as amended: scenario B yields technical score 60, weather score 85,
\* regulatory score 50, an ai_confidence of exactly 70 and the
\* recommendation CAUTION.
C3_ScenarioB ==
    (Analysed /\ IsScenarioB) =>
        /\ analysis[1].technical_assessment.score = 60
        /\ analysis[1].weather_analysis.score = 85
        /\ analysis[1].regulatory_compliance.score = 50
        /\ analysis[1].ai_confidence = 7000
        /\ analysis[1].ai_recommendation = "CAUTION"

\* C3 witness: scenario B has been analysed
C3_Witness == Analysed /\ IsScenarioB /\ mission = ScenarioB

\* C4: the technical score is 100 - W - B, W by the takeoff weight alone and
\* B by the battery margin alone.
C4_TechnicalScore ==
    Analysed =>
        LET W == IF TakeoffWeight > 250 THEN 40
                 ELSE IF 225 < TakeoffWeight /\ TakeoffWeight <= 250 THEN 15
                 ELSE 0
            B == IF 10 * EstimatedDuration >= 9 * MaxFlightTime THEN 30
                 ELSE IF /\ 8 * MaxFlightTime <= 10 * EstimatedDuration
                         /\ 10 * EstimatedDuration < 9 * MaxFlightTime THEN 15
                 ELSE 0
        IN  analysis[1].technical_assessment.score = 100 - W - B

\* C4 witness: a duration of exactly 0.9 * max_flight_time with a weight of
\* exactly 250 (both penalties, 15 and 30)
C4_Witness ==
    /\ Analysed
    /\ TakeoffWeight = 250
    /\ MaxFlightTime > 0
    /\ 10 * EstimatedDuration = 9 * MaxFlightTime
    /\ analysis[1].technical_assessment.score = 55

\* C5: the weather score is max(0, 100 - Wind - Vis - Cond), one penalty at
\* most per factor, and it is 0 only when all three worst penalties apply.
C5_WeatherScore ==
    Analysed =>
        LET Wind == IF WindSpeed > 15 THEN 35
                    ELSE IF 10 < WindSpeed /\ WindSpeed <= 15 THEN 15 ELSE 0
            Vis == IF Visibility < 3 THEN 30
                   ELSE IF 3 <= Visibility /\ Visibility < 5 THEN 10 ELSE 0
            Cond == IF Condition = "ifr" THEN 40
                    ELSE IF Condition = "mvfr" THEN 15 ELSE 0
            w == analysis[1].weather_analysis
            raw == 100 - Wind - Vis - Cond
        IN  /\ w.score = (IF raw < 0 THEN 0 ELSE raw)
            /\ Len(w.issues) = Cardinality({ i \in 1 .. 3 : <<Wind, Vis, Cond>>[i] > 0 })
            /\ (raw <= 0 <=> (WindSpeed > 15 /\ Visibility < 3 /\ Condition = "ifr"))

\* C5 witness: all three worst penalties, and the score is floored at 0
C5_Witness ==
    /\ Analysed
    /\ WindSpeed > 15 /\ Visibility < 3 /\ Condition = "ifr"
    /\ analysis[1].weather_analysis.score = 0

\* C6: the regulatory score is 100 - A - C, with C = 50 exactly when the
\* airspace is controlled and not authorized.
C6_RegulatoryScore ==
    Analysed =>
        LET A == IF MaxAltitude > 120 THEN 40
                 ELSE IF 100 < MaxAltitude /\ MaxAltitude <= 120 THEN 10 ELSE 0
            C == IF ControlledAirspace /\ ~AirspaceAuthorization THEN 50 ELSE 0
        IN  analysis[1].regulatory_compliance.score = 100 - A - C

\* C6 witness: controlled airspace with authorization costs no points
C6_Witness ==
    /\ Analysed
    /\ ControlledAirspace /\ AirspaceAuthorization
    /\ MaxAltitude = 120
    /\ analysis[1].regulatory_compliance.score = 90

\* C7: each of the three domain scores is an integer in 0 .. 100.
C7_ScoresInRange ==
    Analysed =>
        /\ analysis[1].technical_assessment.score \in 0 .. 100
        /\ analysis[1].weather_analysis.score \in 0 .. 100
        /\ analysis[1].regulatory_compliance.score \in 0 .. 100

\* C7 witness: the penalties add up to more than 100 and the score is 0
C7_Witness ==
    /\ Analysed
    /\ WindSpeed = 16 /\ Visibility = 2 /\ Condition = "ifr"
    /\ analysis[1].weather_analysis.score = 0
    /\ analysis[1].technical_assessment.score = 30

----------------------------------------------------------------------------
(* Properties of the ray-casting test (SpecArea)                            *)

PoorSignalConcern == "System validation indicates poor signal conditions"

\* C27: whenever the geofence confirmation fails during
\* analyze_mission_parameters, key_concerns contains the poor-signal
\* concern and the recommendation is never GO, ai_confidence being at most
\* 81.25; when the confirmation passes, key_concerns is empty.
C27_FailedConfirmationNeverGo ==
    Analysed =>
        LET a == analysis[1]
        IN  /\ system_valid = <<FALSE>> =>
                   /\ \E i \in 1 .. Len(a.key_concerns) :
                          a.key_concerns[i] = PoorSignalConcern
                   /\ a.ai_recommendation # "GO"
                   /\ a.ai_confidence <= 8125
            /\ system_valid = <<TRUE>> => a.key_concerns = << >>

\* a failed confirmation with three perfect domain scores
C27_Witness ==
    /\ Analysed
    /\ system_valid = <<FALSE>>
    /\ analysis[1].ai_confidence = 8125
    /\ analysis[1].ai_recommendation = "CAUTION"

\* C28: a mission whose takeoff_weight exceeds 250 is never given the
\* recommendation GO, for any weather, flight plan, airspace and geofence
\* inputs.
C28_OverweightNeverGo ==
    Analysed /\ TakeoffWeight > 250 => analysis[1].ai_recommendation # "GO"

\* a mission record in which every field is absent
AllAbsent ==
    mission \in {EmptyDict,
                 [aircraft |-> EmptyDict, flight_plan |-> EmptyDict,
                  weather |-> EmptyDict, location |-> EmptyDict]}

\* C30: for a mission record in which every field is absent the analysis
\* applies its defaults: technical score 70, weather score 100, regulatory
\* score 100, the mission is treated as a simulation at (0, 0) so the
\* confirmation passes, ai_confidence is 88.75 and the recommendation GO.
C30_AllAbsentDefaults ==
    Analysed /\ AllAbsent =>
        LET a == analysis[1]
        IN  /\ a.technical_assessment.score = 70
            /\ a.weather_analysis.score = 100
            /\ a.regulatory_compliance.score = 100
            /\ simulator_mode
            /\ position = <<0, 0>>
            /\ system_valid = <<TRUE>>
            /\ a.ai_confidence = 8875
            /\ a.ai_recommendation = "GO"

C30_Witness ==
    /\ Analysed
    /\ mission = EmptyDict
    /\ analysis[1].ai_confidence = 8875
    /\ analysis[1].ai_recommendation = "GO"

\* validate_operational_area has returned r, computed outside simulator
\* mode (only simulator mode returns SIM_CALIBRATED)
HardwareResult ==
    /\ area_result # << >>
    /\ area_result[1].calibration_status # "SIM_CALIBRATED"

ClassifiedInside ==
    /\ area_result[1].valid
    /\ area_result[1].calibration_status = "OPERATIONAL"

ClassifiedOutside ==
    /\ ~area_result[1].valid
    /\ area_result[1].calibration_status = "POOR_SIGNAL"

\* latitude 39, longitude -98
ContinentalInterior == <<39000000, -98000000>>

\* the polygon's first vertex, as <<latitude, longitude>>
SWCorner == << polygon[1][2], polygon[1][1] >>

\* C8: outside simulator mode, latitude 39, longitude -98 is classified as
\* inside the polygon: validate_operational_area returns valid = true with
\* status OPERATIONAL.
C8_InteriorInside ==
    (HardwareResult /\ position = ContinentalInterior) => ClassifiedInside

SetMin(S) == CHOOSE m \in S : \A e \in S : m <= e

SetMax(S) == CHOOSE m \in S : \A e \in S : m >= e

\* the position lies outside the polygon's bounding box, the lowest
\* latitude counting as outside
OutsideBoundingBox ==
    \/ position[1] <= SetMin(VertexLats)
    \/ position[1] > SetMax(VertexLats)
    \/ position[2] > SetMax(VertexLons)
    \/ position[2] < SetMin(VertexLons)

\* C10: the ray-casting test classifies as outside every point whose
\* latitude is at or below the lowest vertex latitude or above the highest,
\* or whose longitude is east of the easternmost or west of the westernmost
\* vertex; in particular latitude 0, longitude 0.
C10_OutsideBoundingBox ==
    (HardwareResult /\ OutsideBoundingBox) => ClassifiedOutside

\* C10 witness: a point west of the westernmost vertex, at a latitude the
\* polygon spans, has been validated outside simulator mode
C10_Witness ==
    /\ HardwareResult
    /\ position[2] < SetMin(VertexLons)
    /\ position[1] = 40000000
    /\ ~area_result[1].valid

\* C14: outside simulator mode validate_operational_area returns, for a
\* point outside the polygon, valid = false, POOR_SIGNAL, signal_strength
\* in [15, 40) and system_health in [25, 60), and for a point inside,
\* valid = true, OPERATIONAL, signal_strength in [80, 95) and system_health
\* in [85, 95); so valid = false iff the status is POOR_SIGNAL, every inside
\* result passes both confirmation thresholds and every outside result
\* fails both.
C14_ResultBands ==
    HardwareResult =>
        LET r == area_result[1]
            inside == _point_in_polygon(position[1], position[2], polygon)
        IN  /\ ~r.valid <=> r.calibration_status = "POOR_SIGNAL"
            /\ ~inside =>
                   /\ ClassifiedOutside
                   /\ r.signal_strength >= 1500 /\ r.signal_strength < 4000
                   /\ r.system_health >= 2500 /\ r.system_health < 6000
                   /\ ~(r.signal_strength > 7000)
                   /\ ~(r.system_health > 7500)
            /\ inside =>
                   /\ ClassifiedInside
                   /\ r.signal_strength >= 8000 /\ r.signal_strength < 9500
                   /\ r.system_health >= 8500 /\ r.system_health < 9500
                   /\ r.signal_strength > 7000
                   /\ r.system_health > 7500

\* an outside point whose result sits at the top of both degraded bands
C14_Witness ==
    /\ HardwareResult
    /\ ~_point_in_polygon(position[1], position[2], polygon)
    /\ ClassifiedOutside
    /\ area_result[1].signal_strength > 3900
    /\ area_result[1].system_health > 5900

----------------------------------------------------------------------------
(* The shared validator: any sequence of calls, at any of a few positions,  *)
(* as time passes                                                           *)

\* <<latitude, longitude>> of the calls: one point inside the polygon and
\* two outside
ValidatorPoints == MissionLocations \cup { <<0, 0>> }

\* the instants of time.time() at which something happens, around the
\* one-hour expiry
Instants == {0, 3599, 3600, 3601}

InitValidator ==
    /\ position = <<0, 0>>
    /\ ValidatorFresh
    /\ PlannerIdle /\ ThreadsIdle /\ BuilderIdle /\ PilotFresh

\* perform_system_validation(latitude, longitude) at any of the positions
PerformSystemValidationAt ==
    \E p \in ValidatorPoints, h1 \in Residues, h2 \in Residues :
        LET v == perform_system_validation(simulator_mode, p[1], p[2], h1, h2, now)
        IN  /\ position' = p
            /\ area_result' = << v.validation_result >>
            /\ system_valid' = << v.system_valid >>
            /\ last_validation' = v.last_validation
            /\ event' = "perform_system_validation"
            /\ UNCHANGED <<simulator_mode, now, status, plannerVars, threadVars,
                           builderVars, pilotVars>>

\* a call that performs the validation in whatever mode the validator is in
ValidateMissionAreaNoSet ==
    \E p \in ValidatorPoints, is_simulation \in BOOLEAN,
       h1 \in Residues, h2 \in Residues :
        LET v == perform_system_validation(simulator_mode, p[1], p[2], h1, h2, now)
        IN  /\ simulator_mode' = is_simulation
            /\ position' = p
            /\ area_result' = << v.validation_result >>
            /\ system_valid' = << v.system_valid >>
            /\ last_validation' = v.last_validation
            /\ event' = "validate_mission_area"
            /\ UNCHANGED <<now, status, plannerVars, threadVars, builderVars, pilotVars>>

\* validate_mission_area(latitude, longitude, is_simulation), run without
\* interruption: set_simulator_mode, then perform_system_validation
ValidateMissionArea ==
    \E p \in ValidatorPoints, is_simulation \in BOOLEAN,
       h1 \in Residues, h2 \in Residues :
        LET v == perform_system_validation(is_simulation, p[1], p[2], h1, h2, now)
        IN  /\ simulator_mode' = is_simulation
            /\ position' = p
            /\ area_result' = << v.validation_result >>
            /\ system_valid' = << v.system_valid >>
            /\ last_validation' = v.last_validation
            /\ event' = "validate_mission_area"
            /\ UNCHANGED <<now, status, plannerVars, threadVars, builderVars, pilotVars>>

\* get_system_status() (get_operational_status)
GetSystemStatus ==
    /\ status' = << get_system_status(simulator_mode, last_validation, now) >>
    /\ event' = "get_system_status"
    /\ UNCHANGED <<position, simulator_mode, last_validation, now, area_result,
                   system_valid, plannerVars, threadVars, builderVars, pilotVars>>

\* time passes
Tick ==
    \E t \in Instants :
        /\ t > now
        /\ now' = t
        /\ event' = "tick"
        /\ UNCHANGED <<position, simulator_mode, last_validation, area_result,
                       system_valid, status, plannerVars, threadVars, builderVars,
                       pilotVars>>

NextValidator ==
    \/ SetSimulatorMode
    \/ PerformSystemValidationAt
    \/ ValidateMissionArea
    \/ GetSystemStatus
    \/ Tick

SpecValidator == InitValidator /\ [][NextValidator]_vars

----------------------------------------------------------------------------
(* Repeated evaluations of one mission, with other calls on the shared      *)
(* validator between them                                                   *)

\* missions with absent fields, and complete missions at every location in
\* both modes
ReplayMissions ==
    PartialMissions \cup
    { MkMission(200, 18, 25, 5, 8, "vfr", 95, FALSE, FALSE, l[1], l[2], sim) :
        l \in ValidatorPoints, sim \in BOOLEAN }

InitReplay ==
    /\ mission \in ReplayMissions
    /\ analysis = << >>
    /\ position = <<0, 0>>
    /\ ValidatorFresh
    /\ ThreadsIdle /\ BuilderIdle /\ PilotFresh

NextReplay ==
    \/ AnalyzeMission
    \/ SetSimulatorMode
    \/ PerformSystemValidationAt
    \/ GetSystemStatus

SpecReplay == InitReplay /\ [][NextReplay]_vars

\* C23: two sequential evaluations of analyze_mission_parameters on
\* identical mission parameters return the same ai_confidence and the same
\* recommendation, whatever state the shared validator was left in before
\* each of them.
C23_Reproducible ==
    [][analysis # << >> /\ analysis' # << >> =>
          /\ analysis'[1].ai_confidence = analysis[1].ai_confidence
          /\ analysis'[1].ai_recommendation = analysis[1].ai_recommendation]_vars

\* a simulation mission evaluated on a validator that had reported a
\* hardware validation before, the evaluation's own record replacing it
C23_Witness ==
    /\ Analysed
    /\ event = "validate_mission_area"
    /\ IsSimulation
    /\ simulator_mode
    /\ status # << >>
    /\ status[1].mode = "HARDWARE"
    /\ status[1].status = "VALIDATED"
    /\ last_validation # << >>
    /\ last_validation[1].result.calibration_status = "SIM_CALIBRATED"

----------------------------------------------------------------------------
(* Properties of the shared validator                                       *)

OutsidePolygon == ~_point_in_polygon(position[1], position[2], polygon)

\* C11: validate_mission_area returns true for every coordinate pair when
\* is_simulation is true, and false for every coordinate pair outside the
\* boundary polygon when is_simulation is false, whatever calls preceded it
\* on the shared validator.
C11_ValidateMissionArea ==
    event = "validate_mission_area" =>
        /\ simulator_mode => system_valid = <<TRUE>>
        /\ ~simulator_mode /\ OutsidePolygon => system_valid = <<FALSE>>

\* a simulation request for a point outside the polygon, answered true on a
\* validator that earlier calls left holding a status and a later clock
C11_Witness ==
    /\ event = "validate_mission_area"
    /\ simulator_mode
    /\ OutsidePolygon
    /\ system_valid = <<TRUE>>
    /\ status # << >>
    /\ now > 0

\* C12: the validator holds a last-validation record iff the most recent
\* perform_system_validation call passed, and the record carries the
\* position and the result of that call; set_simulator_mode and
\* get_system_status never change the record.
C12_RecordIffLastPassed ==
    /\ [](/\ system_valid = << >> => last_validation = << >>
          /\ system_valid = <<FALSE>> => last_validation = << >>
          /\ system_valid = <<TRUE>> =>
                /\ last_validation # << >>
                /\ last_validation[1].position = position
                /\ last_validation[1].result = area_result[1])
    /\ [][event' \in {"set_simulator_mode", "get_system_status"} =>
              last_validation' = last_validation]_vars

\* a record written after the clock moved, still held after the simulator
\* flag was switched off again
C12_Witness ==
    /\ event = "set_simulator_mode"
    /\ ~simulator_mode
    /\ system_valid = <<TRUE>>
    /\ last_validation # << >>
    /\ last_validation[1].timestamp > 0
    /\ last_validation[1].position = position

\* the age of the recorded validation
RecordAge == now - last_validation[1].timestamp

\* C13: get_system_status reports READY with signal_quality 99 whenever
\* simulator mode is on; otherwise NOT_VALIDATED with signal_quality 0 when
\* no validation is recorded; otherwise VALIDATION_EXPIRED when the record
\* is strictly older than 3600 seconds; otherwise VALIDATED with the stored
\* signal_strength.
C13_FourOutcomes ==
    event = "get_system_status" =>
        LET r == status[1]
        IN  /\ r.status \in {"READY", "NOT_VALIDATED", "VALIDATION_EXPIRED", "VALIDATED"}
            /\ simulator_mode =>
                   r.status = "READY" /\ r.signal_quality = 9900
            /\ ~simulator_mode /\ last_validation = << >> =>
                   r.status = "NOT_VALIDATED" /\ r.signal_quality = 0
            /\ ~simulator_mode /\ last_validation # << >> =>
                   IF RecordAge > 3600
                   THEN r.status = "VALIDATION_EXPIRED"
                   ELSE /\ r.status = "VALIDATED"
                        /\ r.signal_quality =
                               last_validation[1].result.signal_strength

\* a record exactly 3600 seconds old is still VALIDATED
C13_Witness ==
    /\ event = "get_system_status"
    /\ ~simulator_mode
    /\ last_validation # << >>
    /\ RecordAge = 3600
    /\ status[1].status = "VALIDATED"

\* C25: whenever get_system_status reports mode HARDWARE with status
\* VALIDATED, the stored last validation was produced by a validation
\* outside simulator mode of a point inside the polygon: its result status
\* is OPERATIONAL, never SIM_CALIBRATED.
C25_ValidatedMeansHardwareValidation ==
    event = "get_system_status" /\ status[1].mode = "HARDWARE"
        /\ status[1].status = "VALIDATED" =>
            /\ last_validation # << >>
            /\ last_validation[1].result.calibration_status = "OPERATIONAL"
            /\ _point_in_polygon(last_validation[1].position[1],
                                 last_validation[1].position[2], polygon)

\* C26: whenever get_system_status reports VALIDATION_EXPIRED its
\* signal_quality is exactly 0, because an age above 3600 seconds makes
\* 50 minus the age in minutes negative.
C26_ExpiredQualityIsZero ==
    event = "get_system_status" /\ status[1].status = "VALIDATION_EXPIRED" =>
        status[1].signal_quality = 0

\* a record one second past the hour
C26_Witness ==
    /\ event = "get_system_status"
    /\ status[1].status = "VALIDATION_EXPIRED"
    /\ ~simulator_mode
    /\ last_validation # << >>
    /\ RecordAge = 3601
    /\ status[1].signal_quality = 0

----------------------------------------------------------------------------
(* Concurrent evaluation requests on the module-level validator             *)

\* the requests that run at the same time
Threads == {1, 2}

\* a request that has not called validate_mission_area yet
NotCalled ==
    [pc |-> "idle", latitude |-> 0, longitude |-> 0, is_simulation |-> FALSE,
     ret |-> << >>]

InitThreads ==
    /\ position = <<0, 0>>
    /\ ValidatorFresh
    /\ threads = [i \in Threads |-> NotCalled]
    /\ PlannerIdle /\ BuilderIdle /\ PilotFresh

\* validate_mission_area(latitude, longitude, is_simulation) is entered and
\* get_system_validator() hands out the one shared validator
ThreadCall(i) ==
    /\ threads[i].pc = "idle"
    /\ \E p \in ValidatorPoints, is_simulation \in BOOLEAN :
           threads' = [threads EXCEPT ![i] =
                          [pc |-> "called", latitude |-> p[1], longitude |-> p[2],
                           is_simulation |-> is_simulation, ret |-> << >>]]
    /\ UNCHANGED <<validatorVars, plannerVars, builderVars, pilotVars>>

\* validator.set_simulator_mode(is_simulation)
ThreadSetSimulatorMode(i) ==
    /\ threads[i].pc = "called"
    /\ simulator_mode' = threads[i].is_simulation
    /\ event' = "set_simulator_mode"
    /\ threads' = [threads EXCEPT ![i].pc = "set"]
    /\ UNCHANGED <<position, last_validation, now, area_result, system_valid,
                   status, plannerVars, builderVars, pilotVars>>

\* return validator.perform_system_validation(latitude, longitude)
ThreadPerformSystemValidation(i) ==
    /\ threads[i].pc = "set"
    /\ \E h1 \in Residues, h2 \in Residues :
           LET v == perform_system_validation(simulator_mode, threads[i].latitude,
                                              threads[i].longitude, h1, h2, now)
           IN  /\ position' = <<threads[i].latitude, threads[i].longitude>>
               /\ area_result' = << v.validation_result >>
               /\ system_valid' = << v.system_valid >>
               /\ last_validation' = v.last_validation
               /\ threads' = [threads EXCEPT ![i].pc = "done",
                                             ![i].ret = << v.system_valid >>]
    /\ event' = "validate_mission_area"
    /\ UNCHANGED <<simulator_mode, now, status, plannerVars, builderVars, pilotVars>>

NextThreads ==
    \E i \in Threads :
        \/ ThreadCall(i)
        \/ ThreadSetSimulatorMode(i)
        \/ ThreadPerformSystemValidation(i)

SpecThreads == InitThreads /\ [][NextThreads]_vars

\* what validate_mission_area returns when nothing runs beside it
ReturnsAlone(latitude, longitude, is_simulation) ==
    is_simulation \/ _point_in_polygon(latitude, longitude, polygon)

\* C15: concurrent calls of validate_mission_area on the shared validator
\* each return what they would return if run alone; in particular a request
\* with is_simulation = true always gets true.
C15_AtomicValidateMissionArea ==
    \A i \in Threads :
        threads[i].pc = "done" =>
            threads[i].ret =
                << ReturnsAlone(threads[i].latitude, threads[i].longitude,
                                threads[i].is_simulation) >>

----------------------------------------------------------------------------
(* AIPilot.make_go_no_go_decision                                           *)

\* A factor's name is the tuple of the words its key joins with "_", and a
\* reason is the tuple of the words its text joins with " ":
\* f"Failed {factor.replace('_', ' ')} check"
FailedCheck(factor) == <<"Failed">> \o factor \o <<"check">>

\* decision_factors, in the order the dict literal lists them, as
\* <<factor, status>>.  estimated_flight_time is in thousandths of a minute.
decision_factors(flight_plan) ==
    << << <<"faa", "compliant">>, flight_plan.faa_compliance.compliant >>,
       << <<"weather", "acceptable">>,
          Get(flight_plan.weather, "flight_risk", "None") # "HIGH_RISK" >>,
       << <<"terrain", "clearance">>,
          Get(flight_plan.terrain, "terrain_clearance", TRUE) >>,
       << <<"battery", "reserve">>,
          flight_plan.performance.estimated_flight_time > 10000 >>,
       << <<"aircraft", "ready">>, TRUE >> >>

\* the reasons of the factors from the i-th on
RECURSIVE FailedReasons(_, _)
FailedReasons(factors, i) ==
    IF i > Len(factors) THEN << >>
    ELSE (IF ~factors[i][2] THEN << FailedCheck(factors[i][1]) >> ELSE << >>)
         \o FailedReasons(factors, i + 1)

\* a decision whose battery reserve is met by 10 minutes exactly
make_go_no_go_decision_inclusive(flight_plan) ==
    LET factors == [decision_factors(flight_plan) EXCEPT
                        ![4][2] = flight_plan.performance.estimated_flight_time >= 10000]
        go_decision == \A i \in 1..Len(factors) : factors[i][2]
    IN  [go |-> go_decision,
         confidence_level |-> IF go_decision THEN "HIGH" ELSE "LOW",
         reasons |-> IF ~go_decision THEN FailedReasons(factors, 1) ELSE << >>,
         recommendations |-> Get(flight_plan.faa_compliance, "recommendations", << >>)]

make_go_no_go_decision(flight_plan) ==
    LET factors == decision_factors(flight_plan)
        go_decision == \A i \in 1..Len(factors) : factors[i][2]
    IN  [go |-> go_decision,
         confidence_level |-> IF go_decision THEN "HIGH" ELSE "LOW",
         reasons |-> IF ~go_decision THEN FailedReasons(factors, 1) ELSE << >>,
         recommendations |-> Get(flight_plan.faa_compliance, "recommendations", << >>)]

\* the 'weather' and 'terrain' entries of a flight plan, with and without
\* the key the decision reads
WeatherReports ==
    {EmptyDict} \cup
    {[flight_risk |-> r] : r \in {"LOW_RISK", "MODERATE_RISK", "HIGH_RISK"}}

TerrainReports == {EmptyDict} \cup {[terrain_clearance |-> c] : c \in BOOLEAN}

\* the 'faa_compliance' entries, with and without recommendations
ComplianceReports ==
    {[compliant |-> c] : c \in BOOLEAN} \cup
    {[compliant |-> c, recommendations |-> <<"Monitor battery levels continuously">>] :
         c \in BOOLEAN}

\* estimated flight times around the 10-minute reserve
FlightTimes == {5000, 12000} \cup Around(10000)

FlightPlans ==
    [faa_compliance : ComplianceReports,
     weather : WeatherReports,
     terrain : TerrainReports,
     performance : [estimated_flight_time : FlightTimes]]

InitDecision ==
    /\ position = <<0, 0>>
    /\ ValidatorFresh
    /\ PlannerIdle /\ ThreadsIdle /\ BuilderIdle
    /\ bundle \in FlightPlans
    /\ decision = << >>
    /\ pilot_params = EmptyDict
    /\ current_flight_plan = << >>
    /\ outcome = << >>
    /\ MonitorIdle

\* make_go_no_go_decision(flight_plan)
MakeGoNoGoDecision ==
    /\ decision = << >>
    /\ decision' = << make_go_no_go_decision(bundle) >>
    /\ UNCHANGED <<bundle, pilot_params, current_flight_plan, outcome, last_call,
                   telemetry, guidance, validatorVars, plannerVars, threadVars, builderVars>>

NextDecision == MakeGoNoGoDecision

SpecDecision == InitDecision /\ [][NextDecision]_vars

----------------------------------------------------------------------------
(* Properties of the go/no-go decision                                      *)

FaaCompliant == bundle.faa_compliance.compliant
WeatherAcceptable == Get(bundle.weather, "flight_risk", "None") # "HIGH_RISK"
TerrainClearance == Get(bundle.terrain, "terrain_clearance", TRUE)
BatteryReserve == bundle.performance.estimated_flight_time > 10000

ReasonIf(failed, label) == IF failed THEN << label >> ELSE << >>

\* C16: go is the conjunction of faa_compliant, weather risk # HIGH_RISK,
\* terrain_clearance, estimated_flight_time > 10 and aircraft_ready; reasons
\* holds exactly one label per false factor, in the factor order, and is
\* empty iff go; confidence_level is HIGH iff go and LOW otherwise.
C16_GoNoGo ==
    decision # << >> =>
        LET d == decision[1]
        IN  /\ d.go = (FaaCompliant /\ WeatherAcceptable /\ TerrainClearance
                       /\ BatteryReserve)
            /\ d.reasons =
                   ReasonIf(~FaaCompliant, <<"Failed", "faa", "compliant", "check">>)
                   \o ReasonIf(~WeatherAcceptable,
                               <<"Failed", "weather", "acceptable", "check">>)
                   \o ReasonIf(~TerrainClearance,
                               <<"Failed", "terrain", "clearance", "check">>)
                   \o ReasonIf(~BatteryReserve,
                               <<"Failed", "battery", "reserve", "check">>)
            /\ (d.reasons = << >>) = d.go
            /\ d.confidence_level = (IF d.go THEN "HIGH" ELSE "LOW")
            /\ d.confidence_level \in {"HIGH", "LOW"}

\* FAA-compliant, MODERATE_RISK, clearance satisfied, 12 minutes
C16_Witness ==
    /\ decision # << >>
    /\ FaaCompliant
    /\ bundle.weather = [flight_risk |-> "MODERATE_RISK"]
    /\ bundle.terrain = [terrain_clearance |-> TRUE]
    /\ bundle.performance.estimated_flight_time = 12000
    /\ decision[1].go
    /\ decision[1].confidence_level = "HIGH"
    /\ decision[1].reasons = << >>

----------------------------------------------------------------------------
(* AIPilot.plan_flight                                                      *)

\* d.update(e)
Update(d, e) ==
    [k \in DOMAIN d \cup DOMAIN e |-> IF k \in DOMAIN e THEN e[k] ELSE d[k]]

\* The files of aircraft_builder/ that open() finds, by name, with what
\* json.load returns for them: one design saved by the aircraft builder, a
\* 230 g flying wing (its airspeeds are those calculate_airspeeds gives for
\* 230 g on 0.12 square metres).  Speeds are in tenths of m/s, wing_area in
\* millionths of a square metre.
AircraftFiles ==
    [f \in {"AI_Pilot_Flying_Wing_230g.json"} |->
        [design |-> [name |-> "AI_Pilot_Flying_Wing_230g",
                     type |-> "flying_wing",
                     wingspan |-> 800,
                     wing_area |-> 120000,
                     empty_weight |-> 230,
                     max_takeoff_weight |-> 250],
         weight_balance |-> [total_weight |-> 230],
         flight_characteristics |->
             [estimated_flight_time |-> 20,
              airspeeds |-> [Vs |-> 12, Vx |-> 14, Vy |-> 16, Vno |-> 19]]]]

\* load_aircraft_data(config_file): the flattened content of
\* aircraft_builder/{config_file}, or the default aircraft when open()
\* raises FileNotFoundError.  A mission without 'aircraft_config' hands in
\* None, which names the file "None".
load_aircraft_data(config_file) ==
    IF config_file \in DOMAIN AircraftFiles
    THEN LET data == AircraftFiles[config_file]
             aircraft == Update(Get(data, "design", EmptyDict),
                                Get(data, "flight_characteristics", EmptyDict))
         IN  Update(aircraft,
                    [weight_balance |-> Get(data, "weight_balance", EmptyDict)])
    ELSE
    [name |-> "AI_Pilot_Flying_Wing_185g",
     type |-> "flying_wing",
     empty_weight |-> 185,
     max_takeoff_weight |-> 205,
     wingspan |-> 800,
     wing_area |-> 120000,
     airspeeds |-> [Vs |-> 11, Vx |-> 12, Vy |-> 14, Vno |-> 17],
     estimated_flight_time |-> 47,
     battery_reserve |-> 5]

assess_flight_risk(weather) ==
    LET wind_speed == Get(weather, "wind_speed", 0)
        visibility == Get(weather, "visibility", 10)
        ceiling == Get(weather, "ceiling", 10000)
    IN  IF wind_speed > 20 \/ visibility < 3 \/ ceiling < 1000 THEN "HIGH_RISK"
        ELSE IF wind_speed > 10 \/ visibility < 5 \/ ceiling < 3000 THEN "MODERATE_RISK"
        ELSE "LOW_RISK"

\* WeatherService.get_weather: the same simulated report for every location
get_weather ==
    [metar |-> [wind_speed |-> 8, visibility |-> 10, ceiling |-> 5000],
     flight_risk |-> assess_flight_risk([wind_speed |-> 8, visibility |-> 10,
                                         ceiling |-> 5000])]

\* min(wp.get('altitude', 0) for wp in flight_path), flight_path not empty
RECURSIVE MinAltitude(_, _)
MinAltitude(flight_path, i) ==
    IF i = Len(flight_path) THEN Get(flight_path[i], "altitude", 0)
    ELSE Min(Get(flight_path[i], "altitude", 0), MinAltitude(flight_path, i + 1))

\* check_terrain_clearance: << >> when min() raises ValueError on an empty
\* flight path, <<b>> when it returns b
check_terrain_clearance(flight_path, max_terrain) ==
    IF Len(flight_path) = 0 THEN << >>
    ELSE << MinAltitude(flight_path, 1) >= max_terrain + 200 >>

\* get_terrain_profile: << >> when check_terrain_clearance raises
get_terrain_profile(flight_path) ==
    LET max_elevation == 500
        obstacles == IF Len(flight_path) >= 3
                     THEN << [location |-> flight_path[3], height |-> 200,
                              type |-> "tree_line"] >>
                     ELSE << >>
        clearance == check_terrain_clearance(flight_path, max_elevation)
    IN  IF clearance = << >> THEN << >>
        ELSE << [max_terrain_elevation |-> max_elevation,
                 obstacles |-> obstacles,
                 minimum_safe_altitude |-> max_elevation + 200,
                 terrain_clearance |-> clearance[1]] >>

\* calculate_performance.  Times are in thousandths of a minute:
\* base * (1 - wind_speed * 0.1 / 100) minutes is base * (1000 - wind_speed)
\* thousandths.  wind_impact is in tenths of a percent, range in units of
\* 10^-5.
calculate_performance(aircraft, weather) ==
    LET base_flight_time == Get(aircraft, "estimated_flight_time", 30)
        wind_speed == Get(Get(weather, "metar", EmptyDict), "wind_speed", 0)
        adjusted_flight_time == base_flight_time * (1000 - wind_speed)
    IN  [cruise_speed |-> aircraft.airspeeds.Vy,
         max_speed |-> aircraft.airspeeds.Vno,
         stall_speed |-> aircraft.airspeeds.Vs,
         estimated_flight_time |-> Max(5000, adjusted_flight_time),
         range |-> adjusted_flight_time * aircraft.airspeeds.Vy * 8,
         wind_impact |-> wind_speed,
         battery_reserve |-> Get(aircraft, "battery_reserve", 5)]

\* FAAKnowledgeBase.generate_safety_recommendations
generate_safety_recommendations(flight_plan) ==
    (IF Get(flight_plan, "wind_speed", 0) > 10
     THEN <<"High wind conditions detected. Consider delaying flight.">>
     ELSE << >>)
    \o (IF Get(flight_plan, "terrain_elevation", 0) > 1000
        THEN <<"High terrain elevation. Ensure adequate altitude buffer.">>
        ELSE << >>)
    \o (IF Get(flight_plan, "near_airport", FALSE)
        THEN <<"Near controlled airspace. Maintain extra separation from manned aircraft.">>
        ELSE << >>)

\* FAAKnowledgeBase.check_flight_compliance: it reads 'max_altitude',
\* 'estimated_flight_time' and 'over_populated_area' at the top level of
\* the flight plan.  faa_rules: max_altitude 400, battery_reserve 5.
check_flight_compliance(flight_plan) ==
    LET violations ==
            (IF Get(flight_plan, "max_altitude", 0) > 400
             THEN <<"Maximum altitude exceeds FAA limit of 400ft">>
             ELSE << >>)
            \o (IF Get(flight_plan, "estimated_flight_time", 0) < 5 + 5
                THEN <<"Insufficient battery reserve. Need at least 5min reserve">>
                ELSE << >>)
            \o (IF Get(flight_plan, "over_populated_area", FALSE)
                THEN <<"Cannot operate over populated areas">>
                ELSE << >>)
    IN  [compliant |-> Len(violations) = 0,
         violations |-> violations,
         warnings |-> << >>,
         recommendations |-> generate_safety_recommendations(flight_plan)]

\* plan_flight: << >> when it raises, <<flight_plan>> when it returns.  The
\* plan's mission_id, emergency_procedures and pilot_briefing are texts that
\* nothing reads back and are left out.
plan_flight(mission_params) ==
    LET aircraft_data == load_aircraft_data(Get(mission_params, "aircraft_config", "None"))
        weather_data == get_weather
        terrain_data == get_terrain_profile(Get(mission_params, "waypoints", << >>))
        performance == calculate_performance(aircraft_data, weather_data)
    IN  IF terrain_data = << >> THEN << >>
        ELSE LET flight_plan == [aircraft |-> aircraft_data,
                                 weather |-> weather_data,
                                 terrain |-> terrain_data[1],
                                 performance |-> performance,
                                 waypoints |-> Get(mission_params, "waypoints", << >>)]
                 compliance == check_flight_compliance(flight_plan)
                 with_compliance ==
                     [k \in DOMAIN flight_plan \cup {"faa_compliance"} |->
                         IF k = "faa_compliance" THEN compliance ELSE flight_plan[k]]
                 go_no_go == make_go_no_go_decision(with_compliance)
             IN  << [k \in DOMAIN with_compliance \cup {"go_no_go"} |->
                        IF k = "go_no_go" THEN go_no_go ELSE with_compliance[k]] >>

\* the longest waypoint list
MaxWaypoints == 3

\* waypoints, with and without an altitude, around the 700 ft the terrain
\* clearance asks for
Waypoints == {EmptyDict} \cup {[altitude |-> a] : a \in {699, 700, 800}}

RECURSIVE SeqsUpTo(_, _)
SeqsUpTo(S, n) ==
    IF n = 0 THEN { << >> }
    ELSE LET shorter == SeqsUpTo(S, n - 1)
         IN  shorter \cup {Append(q, x) : q \in shorter, x \in S}

\* mission parameters with 'waypoints' absent, empty or listed, and with
\* and without a 'location'
PilotMissions ==
    LET with_waypoints == {[waypoints |-> w] : w \in SeqsUpTo(Waypoints, MaxWaypoints)}
        bare == {EmptyDict} \cup with_waypoints
    IN  bare \cup
        {[k \in DOMAIN m \cup {"location"} |->
             IF k = "location" THEN [lat |-> 37774900, lon |-> -122419400]
             ELSE m[k]] : m \in bare}

InitPilot ==
    /\ position = <<0, 0>>
    /\ ValidatorFresh
    /\ PlannerIdle /\ ThreadsIdle /\ BuilderIdle
    /\ pilot_params \in PilotMissions
    /\ bundle = EmptyDict
    /\ decision = << >>
    /\ current_flight_plan = << >>
    /\ outcome = << >>
    /\ MonitorIdle

\* ai_pilot.plan_flight(mission_params)
PlanFlight ==
    /\ outcome = << >>
    /\ LET plan == plan_flight(pilot_params)
       IN  IF plan = << >>
           THEN /\ outcome' = <<"ValueError">>
                /\ UNCHANGED <<bundle, decision, current_flight_plan>>
           ELSE /\ outcome' = <<"returned">>
                /\ bundle' = plan[1]
                /\ decision' = << plan[1].go_no_go >>
                /\ current_flight_plan' = plan
    /\ last_call' = "plan_flight"
    /\ UNCHANGED <<pilot_params, telemetry, guidance, validatorVars, plannerVars,
                   threadVars, builderVars>>

NextPilot == PlanFlight

SpecPilot == InitPilot /\ [][NextPilot]_vars

----------------------------------------------------------------------------
(* Properties of flight planning                                            *)

\* C17: plan_flight never raises on missing input: when the waypoints list
\* is absent or empty it still returns a flight plan with a populated
\* go/no-go outcome, and current_flight_plan is set to that plan.
C17_NeverRaises ==
    outcome # << >> /\ Get(pilot_params, "waypoints", << >>) = << >> =>
        /\ outcome = <<"returned">>
        /\ current_flight_plan = << bundle >>
        /\ decision # << >>
        /\ DOMAIN decision[1] =
               {"go", "confidence_level", "reasons", "recommendations"}

----------------------------------------------------------------------------
(* AircraftBuilder.calculate_weight_balance                                 *)

\* The floats of the report are exact fractions <<numerator, denominator>>
\* in lowest terms, with a positive denominator.
RECURSIVE GCD(_, _)
GCD(a, b) == IF b = 0 THEN a ELSE GCD(b, a % b)

Norm(n, d) ==
    LET g == GCD(Abs(n), d)
    IN  IF n >= 0 THEN <<n \div g, d \div g>> ELSE <<-(-n \div g), d \div g>>

RatAdd(a, b) == Norm(a[1] * b[2] + b[1] * a[2], a[2] * b[2])

RatSub(a, b) == Norm(a[1] * b[2] - b[1] * a[2], a[2] * b[2])

\* a * b, cancelling across before multiplying
RatMul(a, b) ==
    LET x == Norm(a[1], b[2])
        y == Norm(b[1], a[2])
    IN  <<x[1] * y[1], x[2] * y[2]>>

\* a / b, for b # 0
RatDiv(a, b) == RatMul(a, <<Sgn(b[1]) * b[2], Abs(b[1])>>)

RatGT(a, b) == a[1] * b[2] > b[1] * a[2]

RatGE(a, b) == a[1] * b[2] >= b[1] * a[2]

\* wing_start, mm from the nose
wing_start == 100

\* a position taken from the nose
RelativePosFromNose(x) == x

\* relative_pos = comp.position['x'] - wing_start
RelativePos(x) == x - wing_start

\* a margin of 0.05 counted as stable
IsStableInclusive(stability_margin) == RatGE(stability_margin, <<1, 20>>)

\* 'is_stable': stability_margin > 0.05
IsStable(stability_margin) == RatGT(stability_margin, <<1, 20>>)

\* the moments list
Moments(components) ==
    [i \in 1..Len(components) |->
        LET comp == components[i]
            relative_pos == RelativePos(comp.position.x)
        IN  [component |-> comp.name,
             weight |-> comp.weight,
             position |-> comp.position.x,
             relative_pos |-> relative_pos,
             moment |-> comp.weight * relative_pos]]

\* sum(comp.weight for comp in design.components)
RECURSIVE SumWeights(_, _)
SumWeights(components, i) ==
    IF i > Len(components) THEN 0
    ELSE components[i].weight + SumWeights(components, i + 1)

\* sum(m['moment'] for m in moments)
RECURSIVE SumMoments(_, _)
SumMoments(moments, i) ==
    IF i > Len(moments) THEN 0
    ELSE moments[i].moment + SumMoments(moments, i + 1)

\* calculate_weight_balance: << >> when a division raises
\* ZeroDivisionError, <<report>> when it returns.  design.wing_area is a
\* fraction of a square metre, weights and lengths are whole numbers.
calculate_weight_balance(d) ==
    LET total_weight == SumWeights(d.components, 1)
        moments == Moments(d.components)
        total_moment == SumMoments(moments, 1)
    IN  IF total_weight = 0 THEN << >>
        ELSE IF d.wingspan = 0 THEN << >>
        ELSE LET cg_from_wing == Norm(total_moment, total_weight)
                 mac == RatDiv(RatMul(d.wing_area, <<1000000, 1>>), <<d.wingspan, 1>>)
                 neutral_point == RatMul(<<1, 4>>, mac)
             IN  IF mac[1] = 0 THEN << >>
                 ELSE LET stability_margin ==
                              RatDiv(RatSub(neutral_point, cg_from_wing), mac)
                      IN  << [total_weight |-> total_weight,
                              cg_from_wing |-> cg_from_wing,
                              cg_from_nose |-> RatAdd(cg_from_wing, <<wing_start, 1>>),
                              mac |-> mac,
                              neutral_point |-> neutral_point,
                              stability_margin |-> stability_margin,
                              is_stable |-> IsStable(stability_margin),
                              weight_distribution |-> moments] >>

\* the longest component list
MaxComponents == 2

\* component weights in grams and x positions in mm from the nose
ComponentWeights == {0, 1, 10, 1999}

ComponentXs == {70, 100, 130}

Components ==
    {[name |-> "component", weight |-> w, position |-> [x |-> x]] :
         w \in ComponentWeights, x \in ComponentXs}

Designs ==
    [wingspan : {0, 800, 1000},
     wing_area : {<<0, 1>>, <<3, 25>>, <<3, 20>>},
     components : SeqsUpTo(Components, MaxComponents)]

InitBuilder ==
    /\ position = <<0, 0>>
    /\ ValidatorFresh
    /\ PlannerIdle /\ ThreadsIdle /\ PilotFresh
    /\ design \in Designs
    /\ report = << >>

\* builder.calculate_weight_balance(design)
CalculateWeightBalance ==
    /\ report = << >>
    /\ LET r == calculate_weight_balance(design)
       IN  report' = << [raised |-> IF r = << >> THEN "ZeroDivisionError" ELSE "none",
                        value |-> r] >>
    /\ UNCHANGED <<design, validatorVars, plannerVars, threadVars, pilotVars>>

NextBuilder == CalculateWeightBalance

SpecBuilder == InitBuilder /\ [][NextBuilder]_vars

----------------------------------------------------------------------------
(* Properties of the weight and balance report                              *)

Reported == report # << >> /\ report[1].raised = "none"

TotalWeight == SumWeights(design.components, 1)

\* sum(weight * (x - 100)) over the components
RECURSIVE TotalMoment(_)
TotalMoment(i) ==
    IF i > Len(design.components) THEN 0
    ELSE design.components[i].weight * (design.components[i].position.x - 100)
         + TotalMoment(i + 1)

\* C18: calculate_weight_balance returns a fully populated report without
\* raising for every design, including an empty component list, weights
\* that sum to 0, a wingspan of 0 and a wing_area of 0.
C18_NeverRaises ==
    report # << >> =>
        /\ report[1].raised = "none"
        /\ DOMAIN report[1].value[1] =
               {"total_weight", "cg_from_wing", "cg_from_nose", "mac",
                "neutral_point", "stability_margin", "is_stable",
                "weight_distribution"}

\* C19: in every report is_stable is true iff stability_margin is strictly
\* greater than 0.05.
C19_StableIffMarginAbove ==
    Reported =>
        LET r == report[1].value[1]
        IN  r.is_stable <=> 20 * r.stability_margin[1] > r.stability_margin[2]

\* a margin of exactly 0.05, reported not stable
C19_Witness ==
    /\ Reported
    /\ report[1].value[1].stability_margin = <<1, 20>>
    /\ ~report[1].value[1].is_stable

\* a margin of 0.0501, reported stable
C19_WitnessAbove ==
    /\ Reported
    /\ report[1].value[1].stability_margin = <<501, 10000>>
    /\ report[1].value[1].is_stable

\* C20: for every design with positive total weight, wingspan and wing
\* area, total_weight is the sum of the component weights, cg_from_wing is
\* sum(weight * (x - 100)) / total_weight, cg_from_nose is cg_from_wing +
\* 100, mac is wing_area * 1000000 / wingspan, neutral_point is mac / 4 and
\* stability_margin is (neutral_point - cg_from_wing) / mac; the design is
\* not modified.
C20_ReportFormulas ==
    /\ [](report # << >> /\ TotalWeight > 0 /\ design.wingspan > 0
          /\ design.wing_area[1] > 0 =>
             /\ Reported
             /\ LET r == report[1].value[1]
                    cg == r.cg_from_wing
                    nose == r.cg_from_nose
                    mac == r.mac
                    np == r.neutral_point
                    margin == r.stability_margin
                IN  /\ r.total_weight = TotalWeight
                    /\ cg[1] * TotalWeight = TotalMoment(1) * cg[2]
                    /\ nose[1] * cg[2] = (cg[1] + 100 * cg[2]) * nose[2]
                    /\ mac[1] * design.wingspan * design.wing_area[2] =
                           design.wing_area[1] * 1000000 * mac[2]
                    /\ np[1] * 4 * mac[2] = mac[1] * np[2]
                    /\ RatMul(margin, mac) = RatSub(np, cg)
                    /\ \A q \in {cg, nose, mac, np, margin} : q[2] > 0)
    /\ [][design' = design]_vars

\* two components ahead of and behind the wing's leading edge, with a
\* centre of gravity ahead of it
C20_Witness ==
    /\ Reported
    /\ Len(design.components) = 2
    /\ design.components[1].position.x # design.components[2].position.x
    /\ design.components[1].weight > 0
    /\ design.components[2].weight > 0
    /\ report[1].value[1].cg_from_wing[1] < 0
    /\ report[1].value[1].stability_margin[2] > 1

----------------------------------------------------------------------------
(* AIPilot.monitor_flight                                                   *)

\* the alert raised when its condition holds
AlertIf(condition, alert) == IF condition THEN << alert >> ELSE << >>

\* a monitor whose battery warning starts at 20 percent
monitor_flight_inclusive(plan, sample) ==
    IF plan = << >> THEN << >>
    ELSE LET airspeed == Get(sample, "airspeed", 0)
             stall_speed == plan[1].aircraft.airspeeds.Vs
             altitude == Get(sample, "altitude", 0)
             min_safe_alt == plan[1].terrain.minimum_safe_altitude
             battery_level == Get(sample, "battery_percent", 100)
             alerts ==
                 AlertIf(airspeed < stall_speed * 12,
                         [level |-> "CRITICAL",
                          message |-> <<"Airspeed too low!", airspeed, stall_speed>>,
                          action |-> "Increase throttle immediately, lower nose gently"])
                 \o AlertIf(altitude < min_safe_alt,
                            [level |-> "WARNING",
                             message |-> <<"Low altitude!", altitude, min_safe_alt>>,
                             action |-> "Climb to safe altitude"])
                 \o AlertIf(battery_level <= 20,
                            [level |-> "WARNING",
                             message |-> <<"Low battery", battery_level>>,
                             action |-> "Return to launch area immediately"])
         IN  << [alerts |-> alerts,
                 recommendations |-> << >>,
                 flight_status |-> IF alerts = << >> THEN "NOMINAL" ELSE "CAUTION"] >>

\* monitor_flight(telemetry) with current_flight_plan = plan: << >> when
\* subscripting None raises TypeError, <<result>> otherwise.  The airspeed
\* of the sample is in hundredths of m/s and stall_speed in tenths, so
\* airspeed < stall_speed * 1.2 is airspeed < stall_speed * 12.  A message
\* is its text followed by the values it formats.
monitor_flight(plan, sample) ==
    IF plan = << >> THEN << >>
    ELSE LET airspeed == Get(sample, "airspeed", 0)
             stall_speed == plan[1].aircraft.airspeeds.Vs
             altitude == Get(sample, "altitude", 0)
             min_safe_alt == plan[1].terrain.minimum_safe_altitude
             battery_level == Get(sample, "battery_percent", 100)
             alerts ==
                 AlertIf(airspeed < stall_speed * 12,
                         [level |-> "CRITICAL",
                          message |-> <<"Airspeed too low!", airspeed, stall_speed>>,
                          action |-> "Increase throttle immediately, lower nose gently"])
                 \o AlertIf(altitude < min_safe_alt,
                            [level |-> "WARNING",
                             message |-> <<"Low altitude!", altitude, min_safe_alt>>,
                             action |-> "Climb to safe altitude"])
                 \o AlertIf(battery_level < 20,
                            [level |-> "WARNING",
                             message |-> <<"Low battery", battery_level>>,
                             action |-> "Return to launch area immediately"])
         IN  << [alerts |-> alerts,
                 recommendations |-> << >>,
                 flight_status |-> IF alerts = << >> THEN "NOMINAL" ELSE "CAUTION"] >>

\* a dict with one more key
With(d, key, value) == Update(d, [k \in {key} |-> value])

\* mission parameters for plan_flight: without waypoints (it raises), and
\* with a waypoint for the default aircraft, for a saved design, for a
\* design file that does not exist and for a mission that states its
\* altitude and that it keeps clear of populated areas
FlightMissions ==
    LET flown == [waypoints |-> << [altitude |-> 800] >>]
    IN  { EmptyDict,
          [aircraft_config |-> "AI_Pilot_Flying_Wing_230g.json"],
          flown,
          With(flown, "aircraft_config", "AI_Pilot_Flying_Wing_230g.json"),
          With(flown, "aircraft_config", "AI_Pilot_Flying_Wing_185g.json"),
          With(With(flown, "max_altitude", 300), "over_populated_area", FALSE) }

\* one of a sample's values: absent, or one of vals
Reading(key, vals) == {EmptyDict} \cup {[k \in {key} |-> v] : v \in vals}

\* telemetry samples on and just under each alert threshold, each value
\* also absent: the airspeed around 1.2 times the stall speeds 1.1 and 1.2
\* m/s, the altitude around 700 ft, the battery around 20 percent
Telemetries ==
    { Update(Update(a, b), c) :
        a \in Reading("airspeed", {131, 132, 143, 144}),
        b \in Reading("altitude", {699, 700}),
        c \in Reading("battery_percent", {19, 20}) }

InitFlight ==
    /\ position = <<0, 0>>
    /\ ValidatorFresh
    /\ PlannerIdle /\ ThreadsIdle /\ BuilderIdle /\ PilotFresh

\* a plan_flight that stores only the pilot's first plan
PlanFlightWithKeepFirst ==
    \E p \in FlightMissions :
        /\ pilot_params' = p
        /\ LET plan == plan_flight(p)
           IN  IF plan = << >>
               THEN /\ outcome' = <<"ValueError">>
                    /\ UNCHANGED <<bundle, decision, current_flight_plan>>
               ELSE /\ outcome' = <<"returned">>
                    /\ bundle' = plan[1]
                    /\ decision' = << plan[1].go_no_go >>
                    /\ current_flight_plan' =
                           IF current_flight_plan = << >> THEN plan
                           ELSE current_flight_plan
        /\ last_call' = "plan_flight"
        /\ UNCHANGED <<telemetry, guidance, validatorVars, plannerVars, threadVars,
                       builderVars>>

\* ai_pilot.plan_flight(mission_params), for any of the missions, on a pilot
\* that may have planned before.  bundle is the plan it returned last.
PlanFlightWith ==
    \E p \in FlightMissions :
        /\ pilot_params' = p
        /\ LET plan == plan_flight(p)
           IN  IF plan = << >>
               THEN /\ outcome' = <<"ValueError">>
                    /\ UNCHANGED <<bundle, decision, current_flight_plan>>
               ELSE /\ outcome' = <<"returned">>
                    /\ bundle' = plan[1]
                    /\ decision' = << plan[1].go_no_go >>
                    /\ current_flight_plan' = plan
        /\ last_call' = "plan_flight"
        /\ UNCHANGED <<telemetry, guidance, validatorVars, plannerVars, threadVars,
                       builderVars>>

\* a monitor that keeps the alerts of the tick before
MonitorFlightLatching ==
    \E t \in Telemetries :
        /\ telemetry' = t
        /\ LET r == monitor_flight(current_flight_plan, t)
           IN  IF r = << >>
               THEN /\ outcome' = <<"TypeError">>
                    /\ UNCHANGED guidance
               ELSE /\ outcome' = <<"returned">>
                    /\ guidance' =
                           IF guidance = << >> \/ guidance[1].alerts = << >> THEN r
                           ELSE << [r[1] EXCEPT !.alerts = guidance[1].alerts,
                                                !.flight_status = "CAUTION"] >>
        /\ last_call' = "monitor_flight"
        /\ UNCHANGED <<bundle, decision, pilot_params, current_flight_plan,
                       validatorVars, plannerVars, threadVars, builderVars>>

\* ai_pilot.monitor_flight(telemetry), one tick
MonitorFlight ==
    \E t \in Telemetries :
        /\ telemetry' = t
        /\ LET r == monitor_flight(current_flight_plan, t)
           IN  IF r = << >>
               THEN /\ outcome' = <<"TypeError">>
                    /\ UNCHANGED guidance
               ELSE /\ outcome' = <<"returned">>
                    /\ guidance' = r
        /\ last_call' = "monitor_flight"
        /\ UNCHANGED <<bundle, decision, pilot_params, current_flight_plan,
                       validatorVars, plannerVars, threadVars, builderVars>>

NextFlight ==
    \/ PlanFlightWith
    \/ MonitorFlight

SpecFlight == InitFlight /\ [][NextFlight]_vars

----------------------------------------------------------------------------
(* Properties of flight monitoring                                          *)

\* the last call was a tick that returned a result
Ticked == last_call = "monitor_flight" /\ outcome = <<"returned">>

Airspeed == Get(telemetry, "airspeed", 0)
Altitude == Get(telemetry, "altitude", 0)
BatteryPercent == Get(telemetry, "battery_percent", 100)

\* <<level, action>> of the alerts of the last result
AlertKinds ==
    [i \in 1 .. Len(guidance[1].alerts) |->
        <<guidance[1].alerts[i].level, guidance[1].alerts[i].action>>]

\* the alerts a sample calls for against a stall speed and a minimum safe
\* altitude
ExpectedKinds(stall_speed, min_safe_alt) ==
    AlertIf(Airspeed < 12 * stall_speed,
            <<"CRITICAL", "Increase throttle immediately, lower nose gently">>)
    \o AlertIf(Altitude < min_safe_alt, <<"WARNING", "Climb to safe altitude">>)
    \o AlertIf(BatteryPercent < 20,
               <<"WARNING", "Return to launch area immediately">>)

\* C21: monitor_flight emits a CRITICAL alert iff airspeed < 1.2 *
\* stall_speed, a WARNING iff altitude < minimum_safe_altitude and a WARNING
\* iff battery_percent < 20, in that order and at most three; flight_status
\* is NOMINAL iff there is no alert, else CAUTION.
C21_Alerts ==
    Ticked =>
        LET plan == current_flight_plan[1]
            r == guidance[1]
        IN  /\ AlertKinds = ExpectedKinds(plan.aircraft.airspeeds.Vs,
                                          plan.terrain.minimum_safe_altitude)
            /\ Len(r.alerts) <= 3
            /\ r.flight_status = "NOMINAL" <=> r.alerts = << >>
            /\ r.flight_status = "CAUTION" <=> r.alerts # << >>

\* a sample exactly on all three thresholds of the 230 g design: no alert
C21_Witness ==
    /\ Ticked
    /\ current_flight_plan[1].aircraft.airspeeds.Vs = 12
    /\ telemetry = [airspeed |-> 144, altitude |-> 700, battery_percent |-> 20]
    /\ guidance[1].alerts = << >>
    /\ guidance[1].flight_status = "NOMINAL"

\* a plan that holds nothing but the baseline of the current plan
BaselineOnly ==
    << [aircraft |-> [airspeeds |->
                         [Vs |-> current_flight_plan[1].aircraft.airspeeds.Vs]],
        terrain |-> [minimum_safe_altitude |->
                         current_flight_plan[1].terrain.minimum_safe_altitude]] >>

\* C22: a tick leaves current_flight_plan and every other field of the
\* pilot unchanged, its result depends only on its telemetry sample and
\* the baseline of the current plan, and repeating a tick does not change
\* its result.
C22_StatelessTicks ==
    /\ [](Ticked => guidance = monitor_flight(BaselineOnly, telemetry))
    /\ [][last_call' = "monitor_flight" =>
              /\ current_flight_plan' = current_flight_plan
              /\ bundle' = bundle
              /\ decision' = decision
              /\ pilot_params' = pilot_params]_vars
    /\ [][Ticked /\ last_call' = "monitor_flight" /\ telemetry' = telemetry =>
              guidance' = guidance]_vars

\* a clean tick after the plan was made
C22_Witness ==
    /\ Ticked
    /\ current_flight_plan # << >>
    /\ telemetry = [airspeed |-> 132, altitude |-> 700]
    /\ current_flight_plan[1].aircraft.airspeeds.Vs = 11
    /\ guidance[1].flight_status = "NOMINAL"

\* C24: in a flight plan built by plan_flight the FAA-compliance factor is
\* true whenever the mission's maximum altitude is at most 400 ft, the
\* aircraft's estimated flight time is at least 10 minutes and the flight
\* is not over a populated area.
C24_CompliantWithinLimits ==
    last_call = "plan_flight" /\ outcome = <<"returned">>
        /\ Get(pilot_params, "max_altitude", 0) <= 400
        /\ bundle.aircraft.estimated_flight_time >= 10
        /\ ~Get(pilot_params, "over_populated_area", FALSE)
        => bundle.faa_compliance.compliant

\* C29: monitor_flight returns a result only after a plan_flight has
\* completed on the same pilot, and fails with an error before; once a plan
\* has completed it uses the stall speed and the minimum safe altitude of
\* the most recently completed plan.
C29_MonitorAfterPlan ==
    last_call = "monitor_flight" =>
        /\ outcome \in { <<"TypeError">>, <<"returned">> }
        /\ outcome = <<"TypeError">> <=> bundle = EmptyDict
        /\ outcome = <<"returned">> =>
               AlertKinds = ExpectedKinds(bundle.aircraft.airspeeds.Vs,
                                          bundle.terrain.minimum_safe_altitude)

\* a tick after a plan_flight that failed, judged against the plan
\* completed before it
C29_Witness ==
    /\ Ticked
    /\ "waypoints" \notin DOMAIN pilot_params
    /\ bundle # EmptyDict
    /\ bundle.aircraft.airspeeds.Vs = 12
    /\ telemetry = [airspeed |-> 143]
    /\ guidance[1].alerts # << >>
    /\ guidance[1].alerts[1].level = "CRITICAL"

\* a tick on a pilot that has completed no plan
C29_WitnessUnplanned ==
    /\ last_call = "monitor_flight"
    /\ outcome = <<"TypeError">>
    /\ current_flight_plan = << >>
    /\ pilot_params = EmptyDict

=============================================================================
